---- MODULE Spec2Model ----
(***************************************************************************)
(* coParrot: the squawk command (src/src/commands/add.js, second half).    *)
(* One run of squawk(repo, provider, options): status query, ignore and    *)
(* group partitioning, then one stage -> generate -> commit sequence per   *)
(* group and per ungrouped change, with the statistics it accumulates.     *)
(* Every await of the run is one step of the model; the collaborators      *)
(* (repo.add, repo.diff + provider.generateCommitMessage, repo.commit)     *)
(* answer nondeterministically: they return or they throw.                 *)
(***************************************************************************)
EXTENDS Integers, Sequences, FiniteSets, TLC

(* ------------------------------ bounds -------------------------------- *)
MaxChanges == 3   \* longest status snapshot
MaxIgnore  == 1   \* longest --ignore list
MaxGroup   == 2   \* longest --group list

(* Paths and patterns are sequences of one-character strings. *)
Paths == { <<"a", ".", "j", "s">>,
           <<"b", ".", "t", "x", "t">>,
           <<"c", ".", "j", "s">> }

Patterns == { <<"*", ".", "j", "s">>, <<"*", ".", "t", "x", "t">>, <<"*">> }

Null == "null"            \* a missing message (null / undefined)
Messages == {"", "m1"}    \* texts the provider can return, "" the empty one
Throws == "throws"        \* a collaborator call that throws

VARIABLES
  pc,               \* position of the run: start, stage, generate, commit, returned, thrown
  phase,            \* none, groups (processGroups loop), files (loop of processFilesSequentially), done
  options,          \* options.ignore, options.group
  allChanges,       \* result of repo.getDetailedStatus()
  filteredChanges,  \* after applyIgnorePatterns
  groups,           \* after applyGroupPatterns
  ungroupedChanges, \* after applyGroupPatterns
  j,                \* index of the current group (1-based; the code's j + 1)
  i,                \* index of the current ungrouped change (1-based; the code's i + 1)
  groupStats,       \* processGroups' local stats {commits, files}
  stats,            \* processFilesSequentially's stats
  commitMessage,    \* the current item's commitMessage
  index,            \* the repository's staging area: the set of staged paths
  calls,            \* every collaborator call made so far, in order
  signal,           \* what the run printed last: none, noChanges, allFilesIgnored, summary, error
  fnIn,             \* the arguments of the function under study (partitioner, status translator)
  fnOut,            \* what it returned
  loopPc,           \* generateWithApproval: idle, start, generating, select, input, returned, threw
  skipApproval,     \* this.options.skipApproval
  response,         \* the text of the latest generate call, Null before the first
  currentInstructions, \* the instructions the next generate call carries, Null for none
  thinking,         \* whether the loading indicator is shown
  events,           \* every generate call, indicator change and prompt so far, in order
  loopResult        \* what generateWithApproval resolved to: pending, returned, threw

vars == <<pc, phase, options, allChanges, filteredChanges, groups, ungroupedChanges,
          j, i, groupStats, stats, commitMessage, index, calls, signal, fnIn, fnOut,
          loopPc, skipApproval, response, currentInstructions, thinking, events, loopResult>>

\* the state of one generateWithApproval call
loopVars == <<loopPc, skipApproval, response, currentInstructions, thinking, events, loopResult>>

\* the state a squawk run does not touch
otherVars == <<fnIn, fnOut, loopVars>>

\* the state of a squawk run
squawkVars == <<pc, phase, options, allChanges, filteredChanges, groups, ungroupedChanges,
                j, i, groupStats, stats, commitMessage, index, calls, signal>>

NotCalled == "not called"

Pending == [kind |-> "pending", text |-> Null]

\* no generateWithApproval call under way
IdleLoop ==
  /\ loopPc = "idle"
  /\ skipApproval = FALSE
  /\ response = Null
  /\ currentInstructions = Null
  /\ thinking = FALSE
  /\ events = <<>>
  /\ loopResult = Pending

(* ------------------------------ helpers ------------------------------- *)
Range(s) == { s[k] : k \in 1..Len(s) }

Drop(s, n) == SubSeq(s, n + 1, Len(s))

\* sequences over S of length at most n
RECURSIVE SeqsUpTo(_, _)
SeqsUpTo(S, n) ==
  IF n = 0 THEN { <<>> }
  ELSE LET shorter == SeqsUpTo(S, n - 1)
       IN shorter \cup { Append(s, x) : s \in shorter, x \in S }

\* sequences over S without repetition, of length at most n
DistinctSeqs(S, n) ==
  { s \in SeqsUpTo(S, n) : \A a, b \in 1..Len(s) : a # b => s[a] # s[b] }

\* a Change as squawk reads it: only its path, c.value
Change(p) == [value |-> p]

\* status snapshots: every path at most once
ChangeLists == { [k \in 1..Len(ps) |-> Change(ps[k])] : ps \in DistinctSeqs(Paths, MaxChanges) }

(* --------------------------- pattern matcher -------------------------- *)
\* utils/glob.js: anchored glob match; * stays inside one path segment,
\* ** crosses segments, ? is one character of a segment
RECURSIVE GlobMatch(_, _)
GlobMatch(path, pat) ==
  IF pat = <<>> THEN path = <<>>
  ELSE IF Len(pat) >= 2 /\ pat[1] = "*" /\ pat[2] = "*" THEN
         \/ GlobMatch(path, Drop(pat, 2))
         \/ Len(pat) >= 3 /\ pat[3] = "/" /\ GlobMatch(path, Drop(pat, 3))
         \/ path # <<>> /\ GlobMatch(Tail(path), pat)
  ELSE IF pat[1] = "*" THEN
         \/ GlobMatch(path, Tail(pat))
         \/ path # <<>> /\ path[1] # "/" /\ GlobMatch(Tail(path), pat)
  ELSE IF pat[1] = "?" THEN
         path # <<>> /\ path[1] # "/" /\ GlobMatch(Tail(path), Tail(pat))
  ELSE path # <<>> /\ path[1] = pat[1] /\ GlobMatch(Tail(path), Tail(pat))

matchesAnyPattern(path, patterns) ==
  \E k \in 1..Len(patterns) : GlobMatch(path, patterns[k])

\* the paths that match none of the patterns
filterByGlob(filePaths, patterns) ==
  LET keep(p) == ~matchesAnyPattern(p, patterns) IN SelectSeq(filePaths, keep)

(* ----------------------------- partitioner ---------------------------- *)
\* applyIgnorePatterns returning nothing when there is no pattern
applyIgnorePatterns_emptyDropsAll(changes, ignorePatterns) ==
  IF Len(ignorePatterns) = 0 THEN <<>>
  ELSE LET filePaths == [k \in 1..Len(changes) |-> changes[k].value]
           filteredPaths == filterByGlob(filePaths, ignorePatterns)
           keep(c) == c.value \in Range(filteredPaths)
       IN SelectSeq(changes, keep)

\* applyIgnorePatterns keeping as many leading changes as paths survived,
\* in place of the changes whose paths survived
applyIgnorePatterns_byPosition(changes, ignorePatterns) ==
  IF Len(ignorePatterns) = 0 THEN changes
  ELSE LET filePaths == [k \in 1..Len(changes) |-> changes[k].value]
           filteredPaths == filterByGlob(filePaths, ignorePatterns)
       IN SubSeq(changes, 1, Len(filteredPaths))

\* an absent pattern list (undefined) takes the same branch as an empty one:
\* both are the empty sequence here
applyIgnorePatterns(changes, ignorePatterns) ==
  IF Len(ignorePatterns) = 0 THEN changes
  ELSE LET filePaths == [k \in 1..Len(changes) |-> changes[k].value]
           filteredPaths == filterByGlob(filePaths, ignorePatterns)
           keep(c) == c.value \in Range(filteredPaths)
       IN SelectSeq(changes, keep)

\* applyGroupPatterns leaving the grouped changes in ungroupedChanges
applyGroupPatterns_keepsGrouped(changes, groupPatterns) ==
  IF Len(groupPatterns) = 0 THEN [groups |-> <<>>, ungroupedChanges |-> changes]
  ELSE LET made == [k \in 1..Len(groupPatterns) |->
                      LET inGroup(c) == matchesAnyPattern(c.value, <<groupPatterns[k]>>)
                      IN [pattern |-> groupPatterns[k], files |-> SelectSeq(changes, inGroup)]]
           nonEmpty(g) == Len(g.files) > 0
       IN [groups |-> SelectSeq(made, nonEmpty), ungroupedChanges |-> changes]

\* applyGroupPatterns collecting groupedFiles from the first group only
applyGroupPatterns_firstGroupOnly(changes, groupPatterns) ==
  IF Len(groupPatterns) = 0 THEN [groups |-> <<>>, ungroupedChanges |-> changes]
  ELSE LET made == [k \in 1..Len(groupPatterns) |->
                      LET inGroup(c) == matchesAnyPattern(c.value, <<groupPatterns[k]>>)
                      IN [pattern |-> groupPatterns[k], files |-> SelectSeq(changes, inGroup)]]
           nonEmpty(g) == Len(g.files) > 0
           grps == SelectSeq(made, nonEmpty)
           groupedFiles == IF grps = <<>> THEN {} ELSE { f.value : f \in Range(grps[1].files) }
           notGrouped(c) == c.value \notin groupedFiles
       IN [groups |-> grps, ungroupedChanges |-> SelectSeq(changes, notGrouped)]


\* applyGroupPatterns without .filter(group => group.files.length > 0)
applyGroupPatterns_keepsEmpty(changes, groupPatterns) ==
  IF Len(groupPatterns) = 0 THEN [groups |-> <<>>, ungroupedChanges |-> changes]
  ELSE LET made == [k \in 1..Len(groupPatterns) |->
                      LET inGroup(c) == matchesAnyPattern(c.value, <<groupPatterns[k]>>)
                      IN [pattern |-> groupPatterns[k], files |-> SelectSeq(changes, inGroup)]]
           groupedFiles == UNION { { f.value : f \in Range(made[k].files) } : k \in 1..Len(made) }
           notGrouped(c) == c.value \notin groupedFiles
       IN [groups |-> made, ungroupedChanges |-> SelectSeq(changes, notGrouped)]

applyGroupPatterns(changes, groupPatterns) ==
  IF Len(groupPatterns) = 0 THEN [groups |-> <<>>, ungroupedChanges |-> changes]
  ELSE LET made == [k \in 1..Len(groupPatterns) |->
                      LET inGroup(c) == matchesAnyPattern(c.value, <<groupPatterns[k]>>)
                      IN [pattern |-> groupPatterns[k], files |-> SelectSeq(changes, inGroup)]]
           nonEmpty(g) == Len(g.files) > 0
           grps == SelectSeq(made, nonEmpty)
           groupedFiles == UNION { { f.value : f \in Range(grps[k].files) } : k \in 1..Len(grps) }
           notGrouped(c) == c.value \notin groupedFiles
       IN [groups |-> grps, ungroupedChanges |-> SelectSeq(changes, notGrouped)]

(* ------------------------- repository (git.js) ------------------------ *)
\* JavaScript values handed to repo.add: a string or an object
JsString(p) == [type |-> "string", v |-> p]
JsObject(c) == [type |-> "object", v |-> c]

\* the text "[object Object]": what `"${f}"` gives for an object
ObjectObject == <<"[", "o", "b", "j", "e", "c", "t", " ", "O", "b", "j", "e", "c", "t", "]">>

\* `"${f}"` in GitRepository.add
TemplateString(f) == IF f.type = "string" THEN f.v ELSE ObjectObject

\* the pathspecs of the `git add` command GitRepository.add runs
addPathspecs(files) == [k \in 1..Len(files) |-> TemplateString(files[k])]

\* GitRepository.commit: message.replace(...) throws on a missing message
\* before any git command runs; otherwise git decides
commitOutcomes(message) == IF message = Null THEN {FALSE} ELSE BOOLEAN

(* -------------------------- collaborator calls ------------------------ *)
NoPaths == <<>>

StageCall(item, paths, ok) ==
  [op |-> "stage", item |-> item, paths |-> paths, diff |-> {}, msg |-> Null, ok |-> ok]

GenerateCall(item, diff, msg, ok) ==
  [op |-> "generate", item |-> item, paths |-> NoPaths, diff |-> diff, msg |-> msg, ok |-> ok]

CommitCall(item, msg, ok) ==
  [op |-> "commit", item |-> item, paths |-> NoPaths, diff |-> {}, msg |-> msg, ok |-> ok]

\* stageFiles: repo.add(files); a successful git add puts its pathspecs in the index
stageFiles(item, files, ok) ==
  /\ calls' = Append(calls, StageCall(item, addPathspecs(files), ok))
  /\ index' = IF ok THEN index \cup Range(addPathspecs(files)) ELSE index

\* generateCommitMessage: context = repo.diff([], {staged: true}), then
\* provider.generateCommitMessage(context); r is the text returned, or Throws
generateCommitMessage(item, r) ==
  /\ calls' = Append(calls, GenerateCall(item, index, IF r = Throws THEN Null ELSE r, r # Throws))
  /\ commitMessage' = IF r = Throws THEN commitMessage ELSE r
  /\ index' = index

\* commitFile with a fixed text in place of the generated message
commitFile_fixedMessage(item, message, ok) ==
  /\ calls' = Append(calls, CommitCall(item, "m1", ok))
  /\ index' = IF ok THEN {} ELSE index

\* commitFile: repo.commit(message), whatever the message is; a successful
\* git commit empties the index
commitFile(item, message, ok) ==
  /\ calls' = Append(calls, CommitCall(item, message, ok))
  /\ index' = IF ok THEN {} ELSE index

(* ------------------------------ squawk -------------------------------- *)
ZeroStats == [groupCommits |-> 0, groupFiles |-> 0, individualCommits |-> 0,
              totalCommits |-> 0, failed |-> 0]

ZeroGroupStats == [commits |-> 0, files |-> 0]

\* squawk without the empty-status return
NoChanges_never(changes) == FALSE

\* squawk: if (allChanges.length === 0)
NoChanges(changes) == Len(changes) = 0

\* squawk without the all-ignored return
AllIgnored_never(filtered) == FALSE

\* squawk: if (filteredChanges.length === 0)
AllIgnored(filtered) == Len(filtered) = 0

\* processGroups: the files handed to stageFiles for a group
groupStageArgs(group) == [k \in 1..Len(group.files) |-> JsObject(group.files[k])]

\* processSingleFile: the files handed to stageFiles for a change
fileStageArgs(change) == << JsString(change.value) >>

\* processGroups counting one file per committed group
groupSucceeded_oneFile(gs, group) ==
  [commits |-> gs.commits + 1, files |-> gs.files + 1]

\* processGroups: stats.commits++; stats.files += group.files.length
groupSucceeded(gs, group) ==
  [commits |-> gs.commits + 1, files |-> gs.files + Len(group.files)]

\* processFilesSequentially: stats.individualCommits++
fileSucceeded(s) == [s EXCEPT !.individualCommits = @ + 1]

\* processFilesSequentially: catch (error) { ...; stats.failed++; }
fileFailed(s) == [s EXCEPT !.failed = @ + 1]

\* processFilesSequentially: stats.groupCommits = groupStats.commits; stats.groupFiles = groupStats.files
takeGroupStats(s, gs) == [s EXCEPT !.groupCommits = gs.commits, !.groupFiles = gs.files]

\* processFilesSequentially: stats.totalCommits = stats.groupCommits + stats.individualCommits
finalStats(s) == [s EXCEPT !.totalCommits = s.groupCommits + s.individualCommits]

\* the 1-based progress number of an item: `current`
currentOfGroup(k) == k
currentOfFile(grps, k) == Len(grps) + k

\* processGroups leaving its loop after the first group
nextGroup_firstOnly(grps, k) ==
  IF k = 1 /\ Len(grps) >= 1 THEN 1 ELSE Len(grps) + 1

\* processGroups: if (group.files.length === 0) continue;  the first group
\* at or after position k that is not skipped
RECURSIVE nextGroup(_, _)
nextGroup(grps, k) ==
  IF k > Len(grps) THEN k
  ELSE IF Len(grps[k].files) = 0 THEN nextGroup(grps, k + 1)
  ELSE k

\* Where the run goes once the loop of phase ph stands at position k:
\* the next group, else processGroups returns and the loop over the
\* ungrouped changes runs, else processFilesSequentially returns and squawk
\* shows the summary.
Resume(ph, k, gs, s, grps, ungr) ==
  IF ph = "groups" /\ nextGroup(grps, k) <= Len(grps)
  THEN /\ phase' = "groups"
       /\ j' = nextGroup(grps, k)
       /\ i' = i
       /\ pc' = "stage"
       /\ groupStats' = gs
       /\ stats' = s
       /\ signal' = signal
  ELSE LET s1 == IF ph = "groups" THEN takeGroupStats(s, gs) ELSE s
           k1 == IF ph = "groups" THEN 1 ELSE k
       IN /\ groupStats' = gs
          /\ j' = j
          /\ IF k1 <= Len(ungr)
             THEN /\ phase' = "files"
                  /\ i' = k1
                  /\ pc' = "stage"
                  /\ stats' = s1
                  /\ signal' = signal
             ELSE /\ phase' = "done"
                  /\ i' = i
                  /\ pc' = "returned"
                  /\ stats' = finalStats(s1)
                  /\ signal' = "summary"

Init ==
  /\ pc = "start"
  /\ phase = "none"
  /\ options \in [ignore : SeqsUpTo(Patterns, MaxIgnore), group : SeqsUpTo(Patterns, MaxGroup)]
  /\ allChanges = <<>>
  /\ filteredChanges = <<>>
  /\ groups = <<>>
  /\ ungroupedChanges = <<>>
  /\ j = 0
  /\ i = 0
  /\ groupStats = ZeroGroupStats
  /\ stats = ZeroStats
  /\ commitMessage = Null
  /\ index = {}
  /\ calls = <<>>
  /\ signal = "none"
  /\ fnIn = NotCalled
  /\ fnOut = NotCalled
  /\ IdleLoop

\* processGroups: catch (error) { showFileFailure(error.message); } and on to the next group
processGroupsCatch ==
  Resume("groups", j + 1, groupStats, stats, groups, ungroupedChanges)

\* processFilesSequentially without its try/catch: the error reaches squawk's
\* catch, which prints it and rethrows
processFilesCatch_rethrow ==
  /\ pc' = "thrown"
  /\ signal' = "error"
  /\ UNCHANGED <<phase, j, i, groupStats, stats>>

\* processFilesSequentially: catch (error) { showFileFailure(...); stats.failed++; } and on to the next change
processFilesCatch ==
  Resume("files", i + 1, groupStats, fileFailed(stats), groups, ungroupedChanges)

\* squawk's catch printing the error without rethrowing it
SquawkStatusThrows_swallowed ==
  /\ pc = "start"
  /\ pc' = "returned"
  /\ signal' = "error"
  /\ UNCHANGED <<phase, options, allChanges, filteredChanges, groups, ungroupedChanges,
                 j, i, groupStats, stats, commitMessage, index, calls>>
  /\ UNCHANGED otherVars

\* repo.getDetailedStatus() throws: squawk's catch prints the error and rethrows
SquawkStatusThrows ==
  /\ pc = "start"
  /\ pc' = "thrown"
  /\ signal' = "error"
  /\ UNCHANGED <<phase, options, allChanges, filteredChanges, groups, ungroupedChanges,
                 j, i, groupStats, stats, commitMessage, index, calls>>
  /\ UNCHANGED otherVars

\* squawk grouping the unfiltered status: the ignore patterns only decide the early return
Squawk_groupsUnfiltered ==
  /\ pc = "start"
  /\ \E st \in ChangeLists :
       /\ allChanges' = st
       /\ IF NoChanges(st)
          THEN /\ signal' = "noChanges"
               /\ pc' = "returned"
               /\ UNCHANGED <<phase, filteredChanges, groups, ungroupedChanges,
                              j, i, groupStats, stats>>
          ELSE LET f == applyIgnorePatterns(st, options.ignore)
                   gp == applyGroupPatterns(st, options.group)
               IN /\ filteredChanges' = f
                  /\ groups' = gp.groups
                  /\ ungroupedChanges' = gp.ungroupedChanges
                  /\ IF AllIgnored(f)
                     THEN /\ signal' = "allFilesIgnored"
                          /\ pc' = "returned"
                          /\ UNCHANGED <<phase, j, i, groupStats, stats>>
                     ELSE Resume("groups", 1, ZeroGroupStats, ZeroStats,
                                 gp.groups, gp.ungroupedChanges)
  /\ UNCHANGED <<options, commitMessage, index, calls>>
  /\ UNCHANGED otherVars

\* squawk up to its first await: status, the two early returns, the partition
Squawk ==
  /\ pc = "start"
  /\ \E st \in ChangeLists :
       /\ allChanges' = st
       /\ IF NoChanges(st)
          THEN /\ signal' = "noChanges"
               /\ pc' = "returned"
               /\ UNCHANGED <<phase, filteredChanges, groups, ungroupedChanges,
                              j, i, groupStats, stats>>
          ELSE LET f == applyIgnorePatterns(st, options.ignore)
                   gp == applyGroupPatterns(f, options.group)
               IN /\ filteredChanges' = f
                  /\ groups' = gp.groups
                  /\ ungroupedChanges' = gp.ungroupedChanges
                  /\ IF AllIgnored(f)
                     THEN /\ signal' = "allFilesIgnored"
                          /\ pc' = "returned"
                          /\ UNCHANGED <<phase, j, i, groupStats, stats>>
                     ELSE Resume("groups", 1, ZeroGroupStats, ZeroStats,
                                 gp.groups, gp.ungroupedChanges)
  /\ UNCHANGED <<options, commitMessage, index, calls>>
  /\ UNCHANGED otherVars

\* processGroups: await stageFiles(repo, group.files)
StageGroup ==
  /\ pc = "stage" /\ phase = "groups"
  /\ \E ok \in BOOLEAN :
       /\ stageFiles(currentOfGroup(j), groupStageArgs(groups[j]), ok)
       /\ IF ok
          THEN /\ pc' = "generate"
               /\ UNCHANGED <<phase, j, i, groupStats, stats, signal>>
          ELSE processGroupsCatch
  /\ UNCHANGED <<options, allChanges, filteredChanges, groups, ungroupedChanges, commitMessage>>
  /\ UNCHANGED otherVars

\* processGroups: const commitMessage = await generateCommitMessage(repo, provider)
GenerateGroup ==
  /\ pc = "generate" /\ phase = "groups"
  /\ \E r \in Messages \cup {Null, Throws} :
       /\ generateCommitMessage(currentOfGroup(j), r)
       /\ IF r # Throws
          THEN /\ pc' = "commit"
               /\ UNCHANGED <<phase, j, i, groupStats, stats, signal>>
          ELSE processGroupsCatch
  /\ UNCHANGED <<options, allChanges, filteredChanges, groups, ungroupedChanges>>
  /\ UNCHANGED otherVars

\* processGroups: await commitFile(repo, group.files, commitMessage); stats.commits++; ...
CommitGroup ==
  /\ pc = "commit" /\ phase = "groups"
  /\ \E ok \in commitOutcomes(commitMessage) :
       /\ commitFile(currentOfGroup(j), commitMessage, ok)
       /\ IF ok
          THEN Resume("groups", j + 1, groupSucceeded(groupStats, groups[j]), stats,
                      groups, ungroupedChanges)
          ELSE processGroupsCatch
  /\ UNCHANGED <<options, allChanges, filteredChanges, groups, ungroupedChanges, commitMessage>>
  /\ UNCHANGED otherVars


\* processFilesSequentially going on to the next change as soon as the stage
\* call has returned, without waiting for the rest of processSingleFile
StageFile_notAwaited ==
  /\ pc = "stage" /\ phase = "files"
  /\ \E ok \in BOOLEAN :
       /\ stageFiles(currentOfFile(groups, i), fileStageArgs(ungroupedChanges[i]), ok)
       /\ IF ok
          THEN Resume("files", i + 1, groupStats, stats, groups, ungroupedChanges)
          ELSE processFilesCatch
  /\ UNCHANGED <<options, allChanges, filteredChanges, groups, ungroupedChanges, commitMessage>>
  /\ UNCHANGED otherVars

\* processSingleFile: await stageFiles(repo, [change.value])
StageFile ==
  /\ pc = "stage" /\ phase = "files"
  /\ \E ok \in BOOLEAN :
       /\ stageFiles(currentOfFile(groups, i), fileStageArgs(ungroupedChanges[i]), ok)
       /\ IF ok
          THEN /\ pc' = "generate"
               /\ UNCHANGED <<phase, j, i, groupStats, stats, signal>>
          ELSE processFilesCatch
  /\ UNCHANGED <<options, allChanges, filteredChanges, groups, ungroupedChanges, commitMessage>>
  /\ UNCHANGED otherVars

\* processSingleFile: const commitMessage = await generateCommitMessage(repo, provider)
GenerateFile ==
  /\ pc = "generate" /\ phase = "files"
  /\ \E r \in Messages \cup {Null, Throws} :
       /\ generateCommitMessage(currentOfFile(groups, i), r)
       /\ IF r # Throws
          THEN /\ pc' = "commit"
               /\ UNCHANGED <<phase, j, i, groupStats, stats, signal>>
          ELSE processFilesCatch
  /\ UNCHANGED <<options, allChanges, filteredChanges, groups, ungroupedChanges>>
  /\ UNCHANGED otherVars

\* processSingleFile: await commitFile(repo, [change.value], commitMessage); then
\* processFilesSequentially: stats.individualCommits++
CommitFile ==
  /\ pc = "commit" /\ phase = "files"
  /\ \E ok \in commitOutcomes(commitMessage) :
       /\ commitFile(currentOfFile(groups, i), commitMessage, ok)
       /\ IF ok
          THEN Resume("files", i + 1, groupStats, fileSucceeded(stats),
                      groups, ungroupedChanges)
          ELSE processFilesCatch
  /\ UNCHANGED <<options, allChanges, filteredChanges, groups, ungroupedChanges, commitMessage>>
  /\ UNCHANGED otherVars

Next ==
  \/ SquawkStatusThrows
  \/ Squawk
  \/ StageGroup
  \/ GenerateGroup
  \/ CommitGroup
  \/ StageFile
  \/ GenerateFile
  \/ CommitFile

Spec == Init /\ [][Next]_vars

(* ------------------------- properties of a run ------------------------ *)
NItems == Len(groups) + Len(ungroupedChanges)

Finished == pc = "returned" /\ signal = "summary"

Running == pc \in {"stage", "generate", "commit"}

\* the progress number of the item the run stands at
CurrentItem == IF phase = "groups" THEN currentOfGroup(j) ELSE currentOfFile(groups, i)

CallIds == 1..Len(calls)

StageCallsOf(k) == { n \in CallIds : calls[n].op = "stage" /\ calls[n].item = k }

CommitCallsOf(k) == { n \in CallIds : calls[n].op = "commit" /\ calls[n].item = k }

\* items one of whose stage, generate or commit calls threw
FailedItems == { calls[n].item : n \in { m \in CallIds : ~calls[m].ok } }

\* items whose commit returned
CommittedItems == { calls[n].item : n \in { m \in CallIds : calls[m].op = "commit" /\ calls[m].ok } }

GroupItems == 1..Len(groups)

FileItems == (Len(groups) + 1)..NItems

PathsOf(changes) == [k \in 1..Len(changes) |-> changes[k].value]

\* the number of files in the groups of the items in S
RECURSIVE FilesOfGroups(_)
FilesOfGroups(S) ==
  IF S = {} THEN 0
  ELSE LET k == CHOOSE x \in S : TRUE
       IN Len(groups[k].files) + FilesOfGroups(S \ {k})

\* C1: a throw from stage, generate or commit while processing item k does
\* not abort the run: the call after a failed call of item k < N is the stage
\* call of item k + 1 (or the run stands right before it), after a failure of
\* the last item the run has returned with its statistics, and a run that has
\* ended after its partition has staged every one of its N items.
C1_FailureDoesNotAbort ==
  /\ \A n \in CallIds :
       ~calls[n].ok =>
         IF calls[n].item < NItems
         THEN IF n < Len(calls)
              THEN calls[n + 1].op = "stage" /\ calls[n + 1].item = calls[n].item + 1
              ELSE pc = "stage" /\ CurrentItem = calls[n].item + 1
         ELSE Finished
  /\ (calls # <<>> /\ ~Running) =>
       /\ Finished
       /\ \A k \in 1..NItems : StageCallsOf(k) # {}

\* C1 witness: a finished run in which an item before the last one failed
\* and a later item was staged and committed.
C1_Witness ==
  /\ Finished
  /\ \E n, m \in CallIds :
       /\ n < m
       /\ ~calls[n].ok
       /\ calls[n].item < calls[m].item
       /\ calls[m].op = "commit" /\ calls[m].ok

\* C2: at the end of a run, failed equals the number of items whose stage,
\* generate or commit threw, whether the item is a group or an ungrouped
\* change; so with exactly one failed item, failed by a throwing commit,
\* failed = 1 and totalCommits = N - 1.
C2_FailedCountsEveryFailedItem ==
  Finished =>
    /\ stats.failed = Cardinality(FailedItems)
    /\ ( /\ Cardinality(FailedItems) = 1
         /\ \A n \in CallIds : ~calls[n].ok => calls[n].op = "commit"
         /\ CommittedItems \cup FailedItems = 1..NItems )
       => (stats.failed = 1 /\ stats.totalCommits = NItems - 1)

\* C3: the items are attempted in increasing order, groups (in the
\* partitioner's order) before ungrouped changes (in status order): the
\* calls never go back to an earlier item, before any call for an ungrouped
\* change and at the end of the run every group has been staged and the last
\* group has ended (it failed or its commit returned), and the stage call of
\* the k-th ungrouped change carries that change's path.
C3_GroupsThenUngroupedInOrder ==
  /\ \A m, n \in CallIds : m < n => calls[m].item <= calls[n].item
  /\ \A n \in CallIds :
       calls[n].item \in FileItems =>
         /\ \A g \in GroupItems : \E m \in StageCallsOf(g) : m < n
         /\ Len(groups) > 0 =>
              \E m \in 1..(n - 1) :
                /\ calls[m].item = Len(groups)
                /\ (~calls[m].ok \/ calls[m].op = "commit")
  /\ Finished => \A g \in GroupItems : StageCallsOf(g) # {}
  /\ \A n \in CallIds :
       (calls[n].op = "stage" /\ calls[n].item \in FileItems) =>
         calls[n].paths = << ungroupedChanges[calls[n].item - Len(groups)].value >>
  /\ \A n \in CallIds :
       (calls[n].op = "stage" /\ calls[n].item \in GroupItems) =>
         Len(calls[n].paths) = Len(groups[calls[n].item].files)

\* C3 witness: a finished run with two groups and an ungrouped change, all staged.
C3_Witness ==
  /\ Finished
  /\ Len(groups) >= 2
  /\ Len(ungroupedChanges) >= 1
  /\ \A k \in 1..NItems : StageCallsOf(k) # {}

\* C4: within an item the steps run stage -> generate -> commit: a generate
\* call directly follows the item's stage call that returned and is given
\* the staged diff, a commit call directly follows the item's generate call
\* that returned, and it carries the message that generate call returned.
C4_StageGenerateCommit ==
  \A n \in CallIds :
    /\ calls[n].op = "generate" =>
         /\ n > 1
         /\ calls[n - 1].op = "stage"
         /\ calls[n - 1].item = calls[n].item
         /\ calls[n - 1].ok
         /\ Range(calls[n - 1].paths) \subseteq calls[n].diff
    /\ calls[n].op = "commit" =>
         /\ n > 2
         /\ calls[n - 1].op = "generate"
         /\ calls[n - 1].item = calls[n].item
         /\ calls[n - 1].ok
         /\ calls[n].msg = calls[n - 1].msg
         /\ calls[n - 2].op = "stage"
         /\ calls[n - 2].item = calls[n].item
         /\ calls[n - 2].ok
    /\ calls[n].op = "stage" =>
         (n > 1 => calls[n - 1].item < calls[n].item)

\* C4 witness: two items committed with the different texts generated for them.
C4_Witness ==
  \E m, n \in CallIds :
    /\ calls[m].op = "commit" /\ calls[m].ok /\ calls[m].msg = "m1"
    /\ calls[n].op = "commit" /\ calls[n].msg = ""
    /\ calls[m].item # calls[n].item

\* C5: commit is called for an item only with a non-empty message: no commit
\* call carries an empty or missing message, and an item whose generated
\* message is empty or missing adds nothing to groupCommits, groupFiles or
\* individualCommits.
C5_NoCommitOnEmptyMessage ==
  /\ \A n \in CallIds : calls[n].op = "commit" => calls[n].msg \notin {"", Null}
  /\ Finished =>
       stats.totalCommits <=
         Cardinality({ calls[n].item : n \in { m \in CallIds :
                         calls[m].op = "generate" /\ calls[m].ok /\ calls[m].msg \notin {"", Null} } })

\* C6: when the status query reports zero changes, squawk returns at once
\* with the 'no changes' signal, every counter zero, and no stage, generate
\* or commit call.
C6_NoChangesReturnsAtOnce ==
  (pc \notin {"start", "thrown"} /\ allChanges = <<>>) =>
    /\ pc = "returned"
    /\ signal = "noChanges"
    /\ calls = <<>>
    /\ stats = ZeroStats
    /\ groupStats = ZeroGroupStats
    /\ index = {}

\* C6 witness: a run that returned on an empty status.
C6_Witness == pc = "returned" /\ allChanges = <<>> /\ signal = "noChanges"

\* C7: when the status is not empty but the ignore patterns remove every
\* change, squawk returns without an error, with the 'all files ignored'
\* signal (not the 'no changes' one), every counter zero, and no stage,
\* generate or commit call.
C7_AllIgnoredIsNothingToDo ==
  (pc \notin {"start", "thrown"} /\ allChanges # <<>> /\ filteredChanges = <<>>) =>
    /\ pc = "returned"
    /\ signal = "allFilesIgnored"
    /\ signal # "noChanges"
    /\ calls = <<>>
    /\ stats = ZeroStats
    /\ groupStats = ZeroGroupStats
    /\ index = {}

\* C7 witness: a run over two changes, both ignored, that returned.
C7_Witness ==
  /\ pc = "returned"
  /\ Len(allChanges) = 2
  /\ options.ignore # <<>>
  /\ filteredChanges = <<>>
  /\ signal = "allFilesIgnored"

\* C8: a status query that throws makes squawk throw to its caller: the run
\* is aborted before any partition, stage, generate or commit, and an error
\* is reported only by a run that threw.
C8_StatusFailurePropagates ==
  /\ signal = "error" => pc = "thrown"
  /\ pc = "thrown" =>
       /\ signal = "error"
       /\ calls = <<>>
       /\ phase = "none"
       /\ groups = <<>> /\ ungroupedChanges = <<>> /\ filteredChanges = <<>>
       /\ stats = ZeroStats
       /\ index = {}

\* C8 witness: a run whose status query threw.
C8_Witness == pc = "thrown" /\ signal = "error" /\ calls = <<>>

\* the counters of the run, as one tuple
Counters ==
  <<stats.groupCommits, stats.groupFiles, stats.individualCommits, stats.totalCommits,
    stats.failed, groupStats.commits, groupStats.files>>

\* C9: at the end of a run totalCommits = groupCommits + individualCommits,
\* groupCommits is the number of groups whose commit returned, groupFiles the
\* number of files in those groups, individualCommits the number of
\* ungrouped changes whose commit returned; and no counter ever decreases.
C9_Totals ==
  /\ [](Finished =>
          /\ stats.totalCommits = stats.groupCommits + stats.individualCommits
          /\ stats.groupCommits = Cardinality(CommittedItems \cap GroupItems)
          /\ stats.groupFiles = FilesOfGroups(CommittedItems \cap GroupItems)
          /\ stats.individualCommits = Cardinality(CommittedItems \cap FileItems))
  /\ [][\A k \in 1..Len(Counters) : Counters'[k] >= Counters[k]]_vars

\* C9 witness: a finished run that committed a group of two files and an
\* ungrouped change, and lost another item.
C9_Witness ==
  /\ Finished
  /\ stats.groupCommits >= 1
  /\ stats.groupFiles >= 2
  /\ stats.individualCommits >= 1

\* C10: in a run in which no collaborator throws, every group has exactly
\* one stage call, carrying the paths of all its files, and exactly one
\* commit call; every ungrouped change has exactly one stage call, carrying
\* only its path, and exactly one commit call; so the run makes as many
\* commit calls as it has groups and ungrouped changes.
C10_OneCommitPerItem ==
  (Finished /\ \A n \in CallIds : calls[n].ok) =>
    /\ \A g \in GroupItems :
         /\ Cardinality(StageCallsOf(g)) = 1
         /\ \A n \in StageCallsOf(g) : calls[n].paths = PathsOf(groups[g].files)
         /\ Cardinality(CommitCallsOf(g)) = 1
    /\ \A f \in FileItems :
         /\ Cardinality(StageCallsOf(f)) = 1
         /\ \A n \in StageCallsOf(f) :
              calls[n].paths = << ungroupedChanges[f - Len(groups)].value >>
         /\ Cardinality(CommitCallsOf(f)) = 1
    /\ Cardinality({ n \in CallIds : calls[n].op = "commit" }) = NItems

(* ---------------- the partitioner as a function of its arguments ------- *)
\* Every change list and every pair of pattern lists within the bounds;
\* one step calls applyIgnorePatterns or applyGroupPatterns on them, a
\* second step calls applyIgnorePatterns on its own result.
NoResult == [fn |-> "none", result |-> <<>>]

IdleSquawk ==
  /\ pc = "idle"
  /\ phase = "none"
  /\ options = [ignore |-> <<>>, group |-> <<>>]
  /\ allChanges = <<>>
  /\ filteredChanges = <<>>
  /\ groups = <<>>
  /\ ungroupedChanges = <<>>
  /\ j = 0
  /\ i = 0
  /\ groupStats = ZeroGroupStats
  /\ stats = ZeroStats
  /\ commitMessage = Null
  /\ index = {}
  /\ calls = <<>>
  /\ signal = "none"

PartInit ==
  /\ IdleSquawk
  /\ IdleLoop
  /\ fnIn \in [changes : ChangeLists,
               ignore : SeqsUpTo(Patterns, MaxIgnore),
               group : SeqsUpTo(Patterns, MaxGroup)]
  /\ fnOut = NoResult

ApplyIgnore ==
  /\ fnOut.fn = "none"
  /\ fnOut' = [fn |-> "applyIgnorePatterns",
               result |-> applyIgnorePatterns(fnIn.changes, fnIn.ignore)]
  /\ UNCHANGED <<squawkVars, loopVars, fnIn>>

ApplyIgnoreAgain ==
  /\ fnOut.fn = "applyIgnorePatterns"
  /\ fnOut' = [fn |-> "applyIgnorePatterns twice",
               result |-> applyIgnorePatterns(fnOut.result, fnIn.ignore)]
  /\ UNCHANGED <<squawkVars, loopVars, fnIn>>

ApplyGroups ==
  /\ fnOut.fn = "none"
  /\ fnOut' = [fn |-> "applyGroupPatterns",
               result |-> applyGroupPatterns(fnIn.changes, fnIn.group)]
  /\ UNCHANGED <<squawkVars, loopVars, fnIn>>

PartNext ==
  \/ ApplyIgnore
  \/ ApplyIgnoreAgain
  \/ ApplyGroups

PartSpec == PartInit /\ [][PartNext]_vars

Grouped == fnOut.fn = "applyGroupPatterns"

\* the positions of the returned groups that hold change c
GroupsHolding(c) ==
  { k \in 1..Len(fnOut.result.groups) : c \in Range(fnOut.result.groups[k].files) }

InUngrouped(c) == c \in Range(fnOut.result.ungroupedChanges)

\* the entries of the group pattern list that change c matches
EntriesMatching(c) ==
  { k \in 1..Len(fnIn.group) : matchesAnyPattern(c.value, <<fnIn.group[k]>>) }

\* C11 (as claimed): applyGroupPatterns returns a partition of its input:
\* every input Change is in exactly one group or in ungrouped.
C11_Partition ==
  Grouped =>
    \A c \in Range(fnIn.changes) :
      Cardinality(GroupsHolding(c)) + (IF InUngrouped(c) THEN 1 ELSE 0) = 1

\* C11 (amended): every input Change is in ungrouped or in at least one
\* group, never in both and never omitted; it is in as many groups as
\* entries of the group pattern list match it, so in exactly one group or
\* in ungrouped when at most one entry matches it; and the groups and
\* ungrouped hold nothing but input Changes.
C11_CoverWithOverlap ==
  Grouped =>
    /\ \A c \in Range(fnIn.changes) :
         /\ InUngrouped(c) <=> GroupsHolding(c) = {}
         /\ Cardinality(GroupsHolding(c)) = Cardinality(EntriesMatching(c))
         /\ Cardinality(EntriesMatching(c)) <= 1 =>
              Cardinality(GroupsHolding(c)) + (IF InUngrouped(c) THEN 1 ELSE 0) = 1
    /\ Range(fnOut.result.ungroupedChanges) \subseteq Range(fnIn.changes)
    /\ \A k \in 1..Len(fnOut.result.groups) :
         Range(fnOut.result.groups[k].files) \subseteq Range(fnIn.changes)

\* C11 witness: a partition with one change in two groups and another
\* change ungrouped.
C11_Witness ==
  /\ Grouped
  /\ \E c, e \in Range(fnIn.changes) :
       /\ Cardinality(GroupsHolding(c)) = 2
       /\ InUngrouped(e)

\* C12: for a non-empty group pattern list, ungrouped is exactly the input
\* changes (in input order) whose path matches none of the group patterns.
C12_UngroupedMatchesNothing ==
  (Grouped /\ fnIn.group # <<>>) =>
    LET matchesNone(c) == ~matchesAnyPattern(c.value, fnIn.group)
    IN fnOut.result.ungroupedChanges = SelectSeq(fnIn.changes, matchesNone)

\* C12 witness: two overlapping groups claim one change, which is not in
\* ungrouped, and a change matching no pattern is.
C12_Witness ==
  /\ Grouped
  /\ Len(fnOut.result.groups) = 2
  /\ \E c \in Range(fnIn.changes) :
       Cardinality(EntriesMatching(c)) = 2 /\ ~InUngrouped(c)
  /\ \E c \in Range(fnIn.changes) :
       EntriesMatching(c) = {} /\ InUngrouped(c)

\* C13: with an empty ignore pattern list applyIgnorePatterns returns its
\* input; with an empty group pattern list applyGroupPatterns returns no
\* group and its input as ungrouped.
C13_EmptyListsAreIdentity ==
  /\ (fnOut.fn = "applyIgnorePatterns" /\ fnIn.ignore = <<>>) =>
       fnOut.result = fnIn.changes
  /\ (Grouped /\ fnIn.group = <<>>) =>
       fnOut.result = [groups |-> <<>>, ungroupedChanges |-> fnIn.changes]

\* C13 witness: applyIgnorePatterns called on three changes with no pattern.
C13_Witness ==
  /\ fnOut.fn = "applyIgnorePatterns"
  /\ fnIn.ignore = <<>>
  /\ Len(fnIn.changes) = 3
  /\ Len(fnOut.result) = 3

\* C14: applyIgnorePatterns applied to its own result, with the same
\* patterns, returns that result.
C14_IgnoreIdempotent ==
  fnOut.fn = "applyIgnorePatterns twice" =>
    fnOut.result = applyIgnorePatterns(fnIn.changes, fnIn.ignore)

\* C14 witness: a second filtering of a list the first filtering shortened
\* but did not empty.
C14_Witness ==
  /\ fnOut.fn = "applyIgnorePatterns twice"
  /\ fnOut.result # <<>>
  /\ Len(fnOut.result) < Len(fnIn.changes)

NL == "\n"
TAB == "\t"

MaxLines == 3          \* most lines of a status text
MaxNumstatLines == 2   \* most lines of a numstat text

\* String.prototype.split(sep) for a one-character separator
RECURSIVE Split(_, _)
Split(s, sep) ==
  IF \A k \in 1..Len(s) : s[k] # sep THEN << s >>
  ELSE LET at == CHOOSE k \in 1..Len(s) : s[k] = sep /\ \A m \in 1..(k - 1) : s[m] # sep
       IN << SubSeq(s, 1, at - 1) >> \o Split(SubSeq(s, at + 1, Len(s)), sep)

\* Array.prototype.join(sep)
RECURSIVE Join(_, _)
Join(parts, sep) ==
  IF parts = <<>> THEN <<>>
  ELSE IF Len(parts) = 1 THEN parts[1]
  ELSE parts[1] \o << sep >> \o Join(Tail(parts), sep)

\* String.prototype.substring(from, to) with 0-based from and exclusive to
Substring(s, from, to) ==
  SubSeq(s, (IF from > Len(s) THEN Len(s) ELSE from) + 1, IF to > Len(s) THEN Len(s) ELSE to)

\* String.prototype.substring(from)
SubstringFrom(s, from) == Substring(s, from, Len(s))

IsSpace(ch) == ch \in {" ", TAB, NL}

\* String.prototype.trim()
RECURSIVE TrimStart(_)
TrimStart(s) == IF s # <<>> /\ IsSpace(s[1]) THEN TrimStart(Tail(s)) ELSE s

RECURSIVE TrimEnd(_)
TrimEnd(s) ==
  IF s # <<>> /\ IsSpace(s[Len(s)]) THEN TrimEnd(SubSeq(s, 1, Len(s) - 1)) ELSE s

Trim(s) == TrimEnd(TrimStart(s))

\* String.prototype.includes(ch) for a one-character ch
IncludesChar(s, ch) == \E k \in 1..Len(s) : s[k] = ch

DigitValue(ch) ==
  CASE ch = "0" -> 0 [] ch = "1" -> 1 [] ch = "2" -> 2 [] ch = "3" -> 3 [] ch = "4" -> 4
    [] ch = "5" -> 5 [] ch = "6" -> 6 [] ch = "7" -> 7 [] ch = "8" -> 8 [] ch = "9" -> 9

IsDigit(ch) == ch \in {"0", "1", "2", "3", "4", "5", "6", "7", "8", "9"}

\* parseInt(s) || 0 for an unsigned field: the value of the leading decimal
\* digits, 0 (from NaN) when there is none
RECURSIVE LeadingDigits(_, _)
LeadingDigits(s, acc) ==
  IF s # <<>> /\ IsDigit(s[1]) THEN LeadingDigits(Tail(s), 10 * acc + DigitValue(s[1]))
  ELSE acc

ParseIntOrZero(s) == LeadingDigits(s, 0)

\* _getChangeType: map[status] || 'unknown'
getChangeType(statusCode) ==
  CASE statusCode = <<"M", " ">> -> "modified"
    [] statusCode = <<" ", "M">> -> "modified"
    [] statusCode = <<"M", "M">> -> "modified"
    [] statusCode = <<"A", " ">> -> "added"
    [] statusCode = <<"A", "M">> -> "added"
    [] statusCode = <<"D", " ">> -> "deleted"
    [] statusCode = <<" ", "D">> -> "deleted"
    [] statusCode = <<"R", " ">> -> "renamed"
    [] statusCode = <<"C", " ">> -> "copied"
    [] statusCode = <<"U", " ">> -> "updated"
    [] statusCode = <<"?", "?">> -> "untracked"
    [] OTHER -> "unknown"

\* _parseNumStat: the entries written into stats, in line order: one per
\* line with at least three tab-separated parts
parseNumStat(numstat) ==
  IF numstat = <<>> THEN <<>>
  ELSE LET nonEmpty(l) == l # <<>>
           lines == SelectSeq(Split(numstat, NL), nonEmpty)
           wellFormed(l) == Len(Split(l, TAB)) >= 3
           kept == SelectSeq(lines, wellFormed)
       IN [k \in 1..Len(kept) |->
             LET parts == Split(kept[k], TAB)
             IN [filename |-> parts[3],
                 additions |-> IF parts[1] = <<"-">> THEN 0 ELSE ParseIntOrZero(parts[1]),
                 deletions |-> IF parts[2] = <<"-">> THEN 0 ELSE ParseIntOrZero(parts[2])]]

\* stats[filename]?.<field> || 0: the last entry written under that key
\* (numstats is _parseStatus' local stats)
statsLookup(numstats, filename) ==
  LET hits == { k \in 1..Len(numstats) : numstats[k].filename = filename }
  IN IF hits = {} THEN [additions |-> 0, deletions |-> 0]
     ELSE LET last == CHOOSE k \in hits : \A m \in hits : m <= k
          IN [additions |-> numstats[last].additions, deletions |-> numstats[last].deletions]

\* _parseStatus without .filter(Boolean)
statusLines_unfiltered(status) == Split(status, NL)

\* _parseStatus: status.split('\n').filter(Boolean)
statusLines(status) ==
  LET nonEmpty(l) == l # <<>> IN SelectSeq(Split(status, NL), nonEmpty)

\* _parseStatus: the name looked up in stats: the line after its status code
\* (one character further for '??')
lineFilename(line) ==
  IF Substring(line, 0, 2) = <<"?", "?">> THEN SubstringFrom(line, 3) ELSE SubstringFrom(line, 2)

\* _parseStatus: the Change made from one line
parseLine(line, numstats) ==
  LET statusCode == Substring(line, 0, 2)
      filename == lineFilename(line)
  IN [status |-> getChangeType(statusCode),
      statusCode |-> statusCode,
      value |-> Trim(filename),
      checked |-> IncludesChar(Trim(statusCode), "A"),
      additions |-> statsLookup(numstats, filename).additions,
      deletions |-> statsLookup(numstats, filename).deletions]

parseStatus(status, numstat) ==
  LET lines == statusLines(status)
      numstats == parseNumStat(numstat)
  IN [k \in 1..Len(lines) |-> parseLine(lines[k], numstats)]

\* status lines: the three of the spec's scenario, a worktree modification,
\* two lines too short to hold a code and a path, and an empty line
StatusLineSet ==
  { <<"M", " ", " ", "a", ".", "j", "s">>,
    <<"?", "?", " ", "b", ".", "t", "x", "t">>,
    <<"A", " ", " ", "c", ".", "j", "s", "o", "n">>,
    <<" ", "M", " ", "a", ".", "j", "s">>,
    <<"M">>,
    <<"?", "?">>,
    <<>> }

NumstatLineSet ==
  { <<"3", TAB, "1", TAB, "a", ".", "j", "s">>,
    <<"-", TAB, "-", TAB, "c", ".", "j", "s", "o", "n">>,
    <<"1", "2", TAB, "a", ".", "j", "s">> }

StatusTexts == { Join(ls, NL) : ls \in SeqsUpTo(StatusLineSet, MaxLines) }

NumstatTexts == { Join(ls, NL) : ls \in SeqsUpTo(NumstatLineSet, MaxNumstatLines) }

ParseInit ==
  /\ IdleSquawk
  /\ IdleLoop
  /\ fnIn \in [status : StatusTexts, numstat : NumstatTexts]
  /\ fnOut = NoResult

ParseStatus ==
  /\ fnOut.fn = "none"
  /\ fnOut' = [fn |-> "_parseStatus", result |-> parseStatus(fnIn.status, fnIn.numstat)]
  /\ UNCHANGED <<squawkVars, loopVars, fnIn>>

ParseNext == ParseStatus

ParseSpec == ParseInit /\ [][ParseNext]_vars

Parsed == fnOut.fn = "_parseStatus"

\* the positions of a text at which a non-empty line starts
LineStarts(s) == { k \in 1..Len(s) : s[k] # NL /\ (k = 1 \/ s[k - 1] = NL) }

\* the n-th smallest element of a set of numbers
NthOf(S, n) == CHOOSE x \in S : Cardinality({ y \in S : y < x }) = n - 1

\* the first two characters of the line starting at position k (one, when
\* the line has only one)
CodeAt(s, k) ==
  IF k + 1 <= Len(s) /\ s[k + 1] # NL THEN << s[k], s[k + 1] >> ELSE << s[k] >>

\* C16: _parseStatus returns exactly one Change per non-empty line of the
\* status text, in line order: the k-th Change carries the status code of
\* the k-th non-empty line.
C16_OneChangePerLine ==
  Parsed =>
    /\ Len(fnOut.result) = Cardinality(LineStarts(fnIn.status))
    /\ \A k \in 1..Len(fnOut.result) :
         fnOut.result[k].statusCode = CodeAt(fnIn.status, NthOf(LineStarts(fnIn.status), k))

\* C16 witness: a status text of three lines, the middle one empty, parsed
\* into two Changes with different status codes.
C16_Witness ==
  /\ Parsed
  /\ Len(Split(fnIn.status, NL)) = 3
  /\ Split(fnIn.status, NL)[2] = <<>>
  /\ Len(fnOut.result) = 2
  /\ fnOut.result[1].statusCode # fnOut.result[2].statusCode

\* C17: a Change whose path has a numstat entry carries that entry's
\* additions and deletions ('-' counted as 0), a Change whose path has none
\* carries 0 and 0; status lines "M  a.js", "?? b.txt", "A  c.json" with
\* numstat "3<TAB>1<TAB>a.js" give a.js modified +3 -1, b.txt untracked
\* +0 -0, c.json added +0 -0.
C17_LineCountsByPath ==
  Parsed =>
    /\ \A k \in 1..Len(fnOut.result) :
         LET entry == statsLookup(parseNumStat(fnIn.numstat), fnOut.result[k].value)
         IN /\ fnOut.result[k].additions = entry.additions
            /\ fnOut.result[k].deletions = entry.deletions
    /\ (fnIn.status = Join(<< <<"M", " ", " ", "a", ".", "j", "s">>, <<"?", "?", " ", "b", ".", "t", "x", "t">>, <<"A", " ", " ", "c", ".", "j", "s", "o", "n">> >>, NL) /\ fnIn.numstat = <<"3", TAB, "1", TAB, "a", ".", "j", "s">>) =>
         /\ Len(fnOut.result) = 3
         /\ fnOut.result[1].value = <<"a", ".", "j", "s">> /\ fnOut.result[1].status = "modified"
         /\ fnOut.result[1].additions = 3 /\ fnOut.result[1].deletions = 1
         /\ fnOut.result[2].value = <<"b", ".", "t", "x", "t">> /\ fnOut.result[2].status = "untracked"
         /\ fnOut.result[2].additions = 0 /\ fnOut.result[2].deletions = 0
         /\ fnOut.result[3].value = <<"c", ".", "j", "s", "o", "n">> /\ fnOut.result[3].status = "added"
         /\ fnOut.result[3].additions = 0 /\ fnOut.result[3].deletions = 0

\* C18: a status line too short to hold a two-character status code and a
\* path yields no Change: every Change returned has a non-empty path.
C18_ShortLinesSkipped ==
  Parsed => \A k \in 1..Len(fnOut.result) : fnOut.result[k].value # <<>>

\* ---------------------------------------------------------------------
\* getDetailedStatus (git.js:56-77): the status query, the line-count query
\* with HEAD, its retry without HEAD, then _parseStatus.

StatusCmd == "git status -u --short"
NumstatHeadCmd == "git diff --numstat HEAD"
NumstatCmd == "git diff --numstat"

\* what execSync can do for one command: print a text or fail
ExecOutcomes(texts) ==
  { [ok |-> TRUE, out |-> t] : t \in texts } \cup { [ok |-> FALSE, out |-> <<>>] }

\* exec (git.js:30-42): the output trimmed, or a throw (ok = FALSE)
exec(o) == [ok |-> o.ok, out |-> IF o.ok THEN Trim(o.out) ELSE <<>>]

\* one entry of the log of commands run: the command and what execSync did
ExecCall(cmd, o) == [cmd |-> cmd, ok |-> o.ok, out |-> o.out]

\* the lines git status prints in the runs studied (the empty one gives
\* blank lines and a trailing newline)
DetailLineSet == { <<"M", " ", " ", "a", ".", "j", "s">>, <<"?", "?", " ", "b", ".", "t", "x", "t">>, <<" ", "M", " ", "a", ".", "j", "s">>, <<>> }

StatusOutputs == { Join(ls, NL) : ls \in SeqsUpTo(DetailLineSet, MaxLines) }

\* the numstat outcome getDetailedStatus ends with when the retry without
\* HEAD is not protected by the inner try
numstatRetry_unprotected(plain) == exec(plain)

\* git.js:67-71: the retry without HEAD; a failure leaves numstat = ''
numstatRetry(plain) ==
  IF exec(plain).ok THEN exec(plain) ELSE [ok |-> TRUE, out |-> <<>>]

\* getDetailedStatus, given what execSync does for each of the three
\* commands; the result names the outcome, the Changes and the commands run
getDetailedStatus(st, head, plain) ==
  IF ~exec(st).ok
  THEN [fn |-> "getDetailedStatus threw", result |-> <<>>,
        execs |-> << ExecCall(StatusCmd, st) >>]
  ELSE IF exec(st).out = <<>>
  THEN [fn |-> "getDetailedStatus", result |-> <<>>,
        execs |-> << ExecCall(StatusCmd, st) >>]
  ELSE IF exec(head).ok
  THEN [fn |-> "getDetailedStatus",
        result |-> parseStatus(exec(st).out, exec(head).out),
        execs |-> << ExecCall(StatusCmd, st), ExecCall(NumstatHeadCmd, head) >>]
  ELSE IF numstatRetry(plain).ok
  THEN [fn |-> "getDetailedStatus",
        result |-> parseStatus(exec(st).out, numstatRetry(plain).out),
        execs |-> << ExecCall(StatusCmd, st), ExecCall(NumstatHeadCmd, head),
                     ExecCall(NumstatCmd, plain) >>]
  ELSE [fn |-> "getDetailedStatus threw", result |-> <<>>,
        execs |-> << ExecCall(StatusCmd, st), ExecCall(NumstatHeadCmd, head),
                     ExecCall(NumstatCmd, plain) >>]

DetailInit ==
  /\ IdleSquawk
  /\ IdleLoop
  /\ fnIn = [fn |-> "getDetailedStatus"]
  /\ fnOut = NoResult

GetDetailedStatus ==
  /\ fnOut = NoResult
  /\ \E st \in ExecOutcomes(StatusOutputs) :
       \E head \in ExecOutcomes(NumstatTexts) :
         \E plain \in ExecOutcomes(NumstatTexts) :
           fnOut' = getDetailedStatus(st, head, plain)
  /\ UNCHANGED <<squawkVars, loopVars, fnIn>>

DetailNext == GetDetailedStatus

DetailSpec == DetailInit /\ [][DetailNext]_vars

DetailDone == fnOut.fn \in {"getDetailedStatus", "getDetailedStatus threw"}

\* C19: a failure of the line-count query is never fatal. When the query
\* with HEAD throws it is run again without HEAD; when that throws too the
\* call still returns one Change per status line, each with additions 0 and
\* deletions 0. The call throws exactly when the status query throws.
C19_NumstatFailureNotFatal ==
  DetailDone =>
    LET ex == fnOut.execs
    IN /\ ex[1].cmd = StatusCmd
       /\ (fnOut.fn = "getDetailedStatus threw") <=> ~ex[1].ok
       /\ Len(ex) >= 2 => ex[2].cmd = NumstatHeadCmd
       /\ (Len(ex) >= 2 /\ ~ex[2].ok) => (Len(ex) = 3 /\ ex[3].cmd = NumstatCmd)
       /\ (Len(ex) >= 2 /\ ex[2].ok) => Len(ex) = 2
       /\ (Len(ex) = 3 /\ ~ex[3].ok) =>
            /\ Len(fnOut.result) = Cardinality(LineStarts(Trim(ex[1].out)))
            /\ \A k \in 1..Len(fnOut.result) :
                 /\ fnOut.result[k].additions = 0
                 /\ fnOut.result[k].deletions = 0

\* C19 witness: both line-count queries threw and the call returned two
\* Changes.
C19_Witness ==
  /\ fnOut.fn = "getDetailedStatus"
  /\ Len(fnOut.execs) = 3
  /\ ~fnOut.execs[2].ok
  /\ ~fnOut.execs[3].ok
  /\ Len(fnOut.result) = 2

\* ---------------------------------------------------------------------
\* generateWithApproval (llms.js:205-241) with approveLLMResponse
\* (llms.js:182-203): generate, show, ask, and again until approved.

MaxCalls == 3   \* most generate calls of one generateWithApproval call

LoopTexts == {"t1", "t2"}          \* what a generate call can return
Instructions == {"i1", "i2"}       \* free text a caller or the human supplies
Choices == {"approve", "retry", "retry_with_instructions"}

Ev(op, arg) == [op |-> op, arg |-> arg]

EventsOf(op) == { k \in 1..Len(events) : events[k].op = op }

GenerateCount == Cardinality(EventsOf("generate"))

\* the ternary on this.options.skipApproval never takes the approve branch
autoApproved_never == FALSE

\* this.options.skipApproval ? { action: 'approve' } : await approveLLMResponse(response)
autoApproved == skipApproval

LoopInit ==
  /\ IdleSquawk
  /\ fnIn = [fn |-> "generateWithApproval"]
  /\ fnOut = NoResult
  /\ loopPc = "start"
  /\ skipApproval \in BOOLEAN
  /\ response = Null
  /\ currentInstructions \in Instructions \cup {Null}
  /\ thinking = FALSE
  /\ events = <<>>
  /\ loopResult = Pending


\* the catch rethrowing without stopping the loading indicator
LoopCatch_indicatorLeftOn(ev) ==
  /\ thinking' = thinking
  /\ events' = ev \o << Ev("showError", "") >>
  /\ loopPc' = "threw"
  /\ loopResult' = [kind |-> "threw", text |-> Null]
  /\ UNCHANGED << skipApproval, response, currentInstructions >>

\* catch (error) { stopThinking(); showError(...); throw error; }
LoopCatch(ev) ==
  /\ thinking' = FALSE
  /\ events' = ev \o << Ev("stopThinking", ""), Ev("showError", "") >>
  /\ loopPc' = "threw"
  /\ loopResult' = [kind |-> "threw", text |-> Null]
  /\ UNCHANGED << skipApproval, response, currentInstructions >>

\* top of the while body: startThinking, then this.call(context, type, currentInstructions)
StartGenerate ==
  /\ loopPc = "start"
  /\ GenerateCount < MaxCalls
  /\ thinking' = TRUE
  /\ events' = events \o << Ev("startThinking", ""), Ev("generate", currentInstructions) >>
  /\ loopPc' = "generating"
  /\ UNCHANGED << skipApproval, response, currentInstructions, loopResult >>
  /\ UNCHANGED << squawkVars, fnIn, fnOut >>

\* the call resolves: stopThinking, then approve at once or show and ask
GenerateReturns ==
  /\ loopPc = "generating"
  /\ \E text \in LoopTexts :
       /\ response' = text
       /\ thinking' = FALSE
       /\ IF autoApproved
          THEN /\ events' = events \o << Ev("generated", text), Ev("stopThinking", "") >>
               /\ loopPc' = "returned"
               /\ loopResult' = [kind |-> "returned", text |-> text]
          ELSE /\ events' = events \o << Ev("generated", text), Ev("stopThinking", ""),
                                         Ev("showResponse", text), Ev("select", "") >>
               /\ loopPc' = "select"
               /\ loopResult' = loopResult
  /\ UNCHANGED << skipApproval, currentInstructions >>
  /\ UNCHANGED << squawkVars, fnIn, fnOut >>


\* the call rejects and the loop goes round again instead of throwing
GenerateThrows_retries ==
  /\ loopPc = "generating"
  /\ thinking' = FALSE
  /\ events' = events \o << Ev("generateThrew", ""), Ev("stopThinking", "") >>
  /\ loopPc' = "start"
  /\ UNCHANGED << skipApproval, response, currentInstructions, loopResult >>
  /\ UNCHANGED << squawkVars, fnIn, fnOut >>

\* the call rejects
GenerateThrows ==
  /\ loopPc = "generating"
  /\ LoopCatch(events \o << Ev("generateThrew", "") >>)
  /\ UNCHANGED << squawkVars, fnIn, fnOut >>


\* the select prompt where 'approve' does not leave the loop
Select_approveLoops ==
  /\ loopPc = "select"
  /\ \E action \in Choices :
       /\ CASE action = "approve" ->
                 /\ events' = events \o << Ev("answer", action) >>
                 /\ loopPc' = "start"
                 /\ loopResult' = loopResult
                 /\ currentInstructions' = currentInstructions
            [] action = "retry" ->
                 /\ events' = events \o << Ev("answer", action) >>
                 /\ loopPc' = "start"
                 /\ loopResult' = loopResult
                 /\ currentInstructions' = Null
            [] action = "retry_with_instructions" ->
                 /\ events' = events \o << Ev("answer", action), Ev("input", "") >>
                 /\ loopPc' = "input"
                 /\ loopResult' = loopResult
                 /\ currentInstructions' = currentInstructions
  /\ UNCHANGED << skipApproval, response, thinking >>
  /\ UNCHANGED << squawkVars, fnIn, fnOut >>

\* the human answers the select prompt
Select ==
  /\ loopPc = "select"
  /\ \E action \in Choices :
       /\ CASE action = "approve" ->
                 /\ events' = events \o << Ev("answer", action) >>
                 /\ loopPc' = "returned"
                 /\ loopResult' = [kind |-> "returned", text |-> response]
                 /\ currentInstructions' = currentInstructions
            [] action = "retry" ->
                 /\ events' = events \o << Ev("answer", action) >>
                 /\ loopPc' = "start"
                 /\ loopResult' = loopResult
                 /\ currentInstructions' = Null
            [] action = "retry_with_instructions" ->
                 /\ events' = events \o << Ev("answer", action), Ev("input", "") >>
                 /\ loopPc' = "input"
                 /\ loopResult' = loopResult
                 /\ currentInstructions' = currentInstructions
  /\ UNCHANGED << skipApproval, response, thinking >>
  /\ UNCHANGED << squawkVars, fnIn, fnOut >>

\* the select prompt is cancelled: its promise rejects inside the try
SelectCancelled ==
  /\ loopPc = "select"
  /\ LoopCatch(events \o << Ev("cancel", "") >>)
  /\ UNCHANGED << squawkVars, fnIn, fnOut >>


\* the typed instructions are used only when there were none before
Input_keepsEarlier ==
  /\ loopPc = "input"
  /\ \E text \in Instructions :
       /\ events' = events \o << Ev("answer", text) >>
       /\ currentInstructions' = IF currentInstructions = Null THEN text ELSE currentInstructions
  /\ loopPc' = "start"
  /\ UNCHANGED << skipApproval, response, thinking, loopResult >>
  /\ UNCHANGED << squawkVars, fnIn, fnOut >>

\* the human types the custom instructions
Input ==
  /\ loopPc = "input"
  /\ \E text \in Instructions :
       /\ events' = events \o << Ev("answer", text) >>
       /\ currentInstructions' = text
  /\ loopPc' = "start"
  /\ UNCHANGED << skipApproval, response, thinking, loopResult >>
  /\ UNCHANGED << squawkVars, fnIn, fnOut >>

\* the input prompt is cancelled
InputCancelled ==
  /\ loopPc = "input"
  /\ LoopCatch(events \o << Ev("cancel", "") >>)
  /\ UNCHANGED << squawkVars, fnIn, fnOut >>

LoopNext ==
  \/ StartGenerate
  \/ GenerateReturns
  \/ GenerateThrows
  \/ Select
  \/ SelectCancelled
  \/ Input
  \/ InputCancelled

LoopSpec == LoopInit /\ [][LoopNext]_vars

HumanCalls == EventsOf("showResponse") \cup EventsOf("select") \cup EventsOf("input")

\* C20: with skipApproval set, no human-interaction call is ever made, and
\* once the generate call has returned a text the loop has made exactly one
\* generate call and has resolved to that text.
C20_AutoApproveOneCall ==
  skipApproval =>
    /\ HumanCalls = {}
    /\ \A k \in EventsOf("generated") :
         /\ GenerateCount = 1
         /\ loopPc = "returned"
         /\ loopResult = [kind |-> "returned", text |-> events[k].arg]

\* C20 witness: an auto-approved call that resolved to the text t2.
C20_Witness ==
  /\ skipApproval
  /\ loopPc = "returned"
  /\ loopResult = [kind |-> "returned", text |-> "t2"]
  /\ GenerateCount = 1

\* C21: the instructions of every generate call after the first are set by
\* the human's latest choice alone: after 'retry' the call carries none,
\* after 'retry with instructions' it carries exactly the text just typed.
C21_InstructionsFromLatestChoice ==
  \A k \in EventsOf("generate") :
    k > 3 =>
      /\ events[k - 2].op = "answer"
      /\ events[k - 3].op # "input" =>
           (events[k - 2].arg = "retry" /\ events[k].arg = Null)
      /\ events[k - 3].op = "input" => events[k].arg = events[k - 2].arg

\* C21 witness: a first call with the caller's instructions i1, 'retry' and
\* a call without instructions, then 'retry with instructions' i2 and a call
\* with i2.
C21_Witness ==
  /\ GenerateCount = 3
  /\ events[NthOf(EventsOf("generate"), 1)].arg = "i1"
  /\ events[NthOf(EventsOf("generate"), 2)].arg = Null
  /\ events[NthOf(EventsOf("generate"), 3)].arg = "i2"

\* C22: when a generate call throws, the loop throws: nothing but stopping
\* the indicator and printing the error follows, so no prompt is shown for
\* that attempt, no further generate call is made and no text is returned.
C22_GenerateFailurePropagates ==
  \A k \in EventsOf("generateThrew") :
    /\ loopPc = "threw"
    /\ loopResult = [kind |-> "threw", text |-> Null]
    /\ Len(events) = k + 2
    /\ events[k + 1].op = "stopThinking"
    /\ events[k + 2].op = "showError"

\* C22 witness: the second generate call of a loop threw.
C22_Witness ==
  /\ EventsOf("generateThrew") # {}
  /\ GenerateCount = 2
  /\ loopPc = "threw"

\* C23: when the approval prompt (the choice or the free-text prompt) is
\* cancelled, the loop returns an empty result and does not throw.
C23_CancelReturnsEmpty ==
  EventsOf("cancel") # {} =>
    /\ loopPc = "returned"
    /\ loopResult = [kind |-> "returned", text |-> Null]

\* the human of the liveness study: answers every prompt, never cancels, and
\* approves at the latest the text of generate call number MaxCalls
SelectPatient ==
  /\ Select
  /\ GenerateCount >= MaxCalls => loopPc' = "returned"

LoopLiveNext ==
  \/ StartGenerate
  \/ GenerateReturns
  \/ SelectPatient
  \/ Input

\* generate never throws, no prompt is cancelled, every pending step is taken
LoopLiveSpec == LoopInit /\ [][LoopLiveNext]_vars /\ WF_vars(LoopLiveNext)

RetryAnswers ==
  { k \in EventsOf("answer") : events[k].arg \in {"retry", "retry_with_instructions"} }

\* C24: the loop ends only by approval (or error): a human who chooses retry
\* or retry-with-instructions k times and then approve causes exactly k + 1
\* generate calls, and when generate never throws and the human eventually
\* approves the loop eventually returns.
C24_EndsOnlyByApproval ==
  /\ [](/\ loopPc = "select" => GenerateCount = Cardinality(RetryAnswers) + 1
        /\ (loopPc = "returned" /\ ~skipApproval) =>
             /\ GenerateCount = Cardinality(RetryAnswers) + 1
             /\ events[Len(events)] = Ev("answer", "approve"))
  /\ <>(loopPc = "returned")

\* C24 witness: two retries, then approve, after three generate calls.
C24_Witness ==
  /\ loopPc = "returned"
  /\ Cardinality(RetryAnswers) = 2
  /\ GenerateCount = 3

\* C25: at most one item is in progress. A call for another item is a stage
\* call, is for a later item, and comes only after the previous item's commit
\* call or after a call of the previous item that threw; the calls of one
\* item are never separated by a call of another; and while the run waits in
\* a generate or commit step the latest call is a call of the current item
\* that returned.
C25_OneItemAtATime ==
  /\ \A n \in CallIds :
       (n < Len(calls) /\ calls[n + 1].item # calls[n].item) =>
         /\ calls[n + 1].op = "stage"
         /\ calls[n + 1].item > calls[n].item
         /\ (calls[n].op = "commit" \/ ~calls[n].ok)
  /\ \A m, n \in CallIds :
       (m < n /\ calls[m].item = calls[n].item) =>
         \A l \in m..n : calls[l].item = calls[m].item
  /\ pc \in {"generate", "commit"} =>
       /\ calls # <<>>
       /\ calls[Len(calls)].item = CurrentItem
       /\ calls[Len(calls)].ok
       /\ calls[Len(calls)].op = IF pc = "generate" THEN "stage" ELSE "generate"

\* C25 witness: the run waits in the generate step of its second item, with
\* a third still to come, after the first item's commit returned.
C25_Witness ==
  /\ pc = "generate"
  /\ CurrentItem = 2
  /\ NItems = 3
  /\ \E n \in CommitCallsOf(1) : calls[n].ok

\* the entries of the group pattern list that match at least one input change
MatchingEntries ==
  { k \in 1..Len(fnIn.group) :
      \E c \in Range(fnIn.changes) : matchesAnyPattern(c.value, <<fnIn.group[k]>>) }

\* the position of change c in the input list (every path occurs once)
PosIn(c) == CHOOSE k \in 1..Len(fnIn.changes) : fnIn.changes[k] = c

\* s lists input changes in the order of the input list
InInputOrder(s) ==
  /\ Range(s) \subseteq Range(fnIn.changes)
  /\ \A a, b \in 1..Len(s) : a < b => PosIn(s[a]) < PosIn(s[b])

\* C26: applyGroupPatterns returns one group per entry of the group pattern
\* list that matches at least one change, in the order of the list; no
\* returned group is empty; the files of each group and the ungrouped list
\* keep the relative order of the input change list.
C26_GroupsInPatternOrder ==
  Grouped =>
    /\ Len(fnOut.result.groups) = Cardinality(MatchingEntries)
    /\ \A n \in 1..Len(fnOut.result.groups) :
         /\ fnOut.result.groups[n].pattern = fnIn.group[NthOf(MatchingEntries, n)]
         /\ fnOut.result.groups[n].files # <<>>
         /\ InInputOrder(fnOut.result.groups[n].files)
    /\ InInputOrder(fnOut.result.ungroupedChanges)

\* C26 witness: two group patterns of which the first matches nothing; the
\* one group returned is for the second and holds two changes.
C26_Witness ==
  /\ Grouped
  /\ Len(fnIn.group) = 2
  /\ MatchingEntries = {2}
  /\ Len(fnOut.result.groups) = 1
  /\ Len(fnOut.result.groups[1].files) = 2

\* the paths of item k: the files of the group, or the one ungrouped change
ItemPaths(k) ==
  IF k \in GroupItems THEN { f.value : f \in Range(groups[k].files) }
  ELSE { ungroupedChanges[k - Len(groups)].value }

\* C27: at every generate call the staged set whose diff is passed to
\* generate is exactly the set of the current item's paths: nothing staged
\* for an earlier item that failed is in it.
C27_DiffIsCurrentItemOnly ==
  \A n \in CallIds :
    calls[n].op = "generate" => calls[n].diff = ItemPaths(calls[n].item)

\* a run without groups in which the first change was staged and its
\* generate call threw, and the generate call of the second change is given
\* the diff of both paths
C27_LeftoverScenario ==
  /\ groups = <<>>
  /\ Len(calls) >= 4
  /\ calls[1].op = "stage" /\ calls[1].ok
  /\ calls[2].op = "generate" /\ ~calls[2].ok
  /\ calls[3].op = "stage" /\ calls[3].item = 2 /\ calls[3].ok
  /\ calls[4].op = "generate"
  /\ calls[4].diff = ItemPaths(1) \cup ItemPaths(2)

\* the items whose commit returned and that hold change c
CommitsHolding(c) == { k \in CommittedItems : c.value \in ItemPaths(k) }

\* C28: in a run in which no stage, generate or commit call throws, every
\* change that survived the ignore patterns is in exactly one commit and is
\* counted once in groupFiles + individualCommits, also when the group
\* patterns overlap.
C28_EachChangeOnce ==
  (Finished /\ \A n \in CallIds : calls[n].ok) =>
    /\ \A k \in 1..Len(filteredChanges) :
         Cardinality(CommitsHolding(filteredChanges[k])) = 1
    /\ stats.groupFiles + stats.individualCommits = Len(filteredChanges)

\* the latest event of kind op
LastOf(op) == CHOOSE k \in EventsOf(op) : \A l \in EventsOf(op) : l <= k

\* C29: generate calls and approval prompts alternate, starting with a
\* generate call; every prompt shows the text the generate call right before
\* it returned; the loading indicator is off whenever a prompt is shown and
\* when the loop has returned or thrown; the text returned is the text of
\* the latest generate call.
C29_GenerateAndPromptAlternate ==
  /\ \A s \in EventsOf("select") :
       /\ s > 4
       /\ events[s - 1].op = "showResponse"
       /\ events[s - 2].op = "stopThinking"
       /\ events[s - 3].op = "generated"
       /\ events[s - 1].arg = events[s - 3].arg
       /\ events[s - 4].op = "generate"
  /\ \A a, b \in EventsOf("generate") :
       a < b => \E s \in EventsOf("select") : a < s /\ s < b
  /\ \A a, b \in EventsOf("select") :
       a < b => \E g \in EventsOf("generate") : a < g /\ g < b
  /\ thinking => loopPc = "generating"
  /\ loopPc \in {"select", "input", "returned", "threw"} =>
       (~thinking /\ events[Len(events)].op # "startThinking")
  /\ loopPc = "returned" =>
       /\ EventsOf("generated") # {}
       /\ loopResult = [kind |-> "returned", text |-> events[LastOf("generated")].arg]

\* C29 witness: the first text t1 was rejected with 'retry' and the loop
\* returned t2, the text of its second generate call.
C29_Witness ==
  /\ loopPc = "returned"
  /\ GenerateCount = 2
  /\ \E k \in EventsOf("generated") : events[k].arg = "t1"
  /\ loopResult = [kind |-> "returned", text |-> "t2"]

\* ---------------------------------------------------------------------
\* gitAdd: the selection prompt, then restoreAll and add. The sources hold
\* two texts of it: commands/add.js (lines 49-64) and unnamed/part_001
\* (lines 44-60).

GitAddVersions == {"add.js", "part_001"}

PathLists == DistinctSeqs(Paths, MaxChanges)

\* what the checkbox prompt can do: resolve to some of the choices, in
\* choice order, or reject because the user cancelled (ExitPromptError), or
\* reject with another error
Answers(files) ==
  { [kind |-> "selected", files |-> LET picked(f) == f \in S IN SelectSeq(files, picked)] :
      S \in SUBSET Range(files) }
  \cup { [kind |-> "cancelled", files |-> <<>>], [kind |-> "error", files |-> <<>>] }

\* selectFilesToAdd: throws on an empty list and on a prompt error, gives
\* [] on a cancelled prompt, else the selection
selectFilesToAdd(files, answer) ==
  IF files = <<>> \/ answer.kind = "error" THEN [ok |-> FALSE, files |-> <<>>]
  ELSE [ok |-> TRUE, files |-> answer.files]

RepoCall(op, paths, ok) == [op |-> op, paths |-> paths, ok |-> ok]

GitAddResult(threw, answer, repoCalls, idx) ==
  [fn |-> IF threw THEN "gitAdd threw" ELSE "gitAdd", result |-> repoCalls,
   answer |-> answer, index |-> idx]

\* the rest of gitAdd for a selection that is not empty: restoreAll
\* ('git restore --staged .') empties the index, add stages the selection
restoreAllThenAdd(answer, sel, restoreOk, addOk, idx) ==
  IF ~restoreOk
  THEN GitAddResult(TRUE, answer, << RepoCall("restoreAll", <<>>, FALSE) >>, idx)
  ELSE GitAddResult(~addOk, answer,
                    << RepoCall("restoreAll", <<>>, TRUE), RepoCall("add", sel, addOk) >>,
                    IF addOk THEN Range(sel) ELSE {})

\* gitAdd of commands/add.js: the empty selection returns before any
\* repository call
gitAdd_addJs(changes, answer, restoreOk, addOk, idx) ==
  LET sel == selectFilesToAdd(changes, answer)
  IN IF ~sel.ok THEN GitAddResult(TRUE, answer, <<>>, idx)
     ELSE IF Len(sel.files) = 0 THEN GitAddResult(FALSE, answer, <<>>, idx)
     ELSE restoreAllThenAdd(answer, sel.files, restoreOk, addOk, idx)

\* gitAdd of unnamed/part_001: restoreAll runs before the test of the
\* selection
gitAdd_part001(changes, answer, restoreOk, addOk, idx) ==
  LET sel == selectFilesToAdd(changes, answer)
  IN IF ~sel.ok THEN GitAddResult(TRUE, answer, <<>>, idx)
     ELSE IF Len(sel.files) = 0
     THEN IF restoreOk
          THEN GitAddResult(FALSE, answer, << RepoCall("restoreAll", <<>>, TRUE) >>, {})
          ELSE GitAddResult(TRUE, answer, << RepoCall("restoreAll", <<>>, FALSE) >>, idx)
     ELSE restoreAllThenAdd(answer, sel.files, restoreOk, addOk, idx)

gitAdd(version, changes, answer, restoreOk, addOk, idx) ==
  IF version = "add.js" THEN gitAdd_addJs(changes, answer, restoreOk, addOk, idx)
  ELSE gitAdd_part001(changes, answer, restoreOk, addOk, idx)

GitAddInit ==
  /\ IdleSquawk
  /\ IdleLoop
  /\ fnIn \in [version : GitAddVersions, changes : PathLists, index : SUBSET Paths]
  /\ fnOut = NoResult

GitAdd ==
  /\ fnOut = NoResult
  /\ \E answer \in Answers(fnIn.changes) :
       \E restoreOk, addOk \in BOOLEAN :
         fnOut' = gitAdd(fnIn.version, fnIn.changes, answer, restoreOk, addOk, fnIn.index)
  /\ UNCHANGED <<squawkVars, loopVars, fnIn>>

GitAddNext == GitAdd

GitAddSpec == GitAddInit /\ [][GitAddNext]_vars

GitAddDone == fnOut.fn \in {"gitAdd", "gitAdd threw"}

\* C30: when the user selects nothing or cancels the selection prompt,
\* gitAdd calls neither restoreAll nor add and the staging area stays as it
\* was; restoreAll followed by add of exactly the selected files happens
\* only for a selection that is not empty.
C30_EmptySelectionLeavesIndex ==
  GitAddDone =>
    /\ (fnOut.answer.kind # "error" /\ fnOut.answer.files = <<>> /\ fnIn.changes # <<>>) =>
         /\ fnOut.fn = "gitAdd"
         /\ fnOut.result = <<>>
         /\ fnOut.index = fnIn.index
    /\ fnOut.result # <<>> =>
         /\ fnOut.answer.kind = "selected"
         /\ fnOut.answer.files # <<>>
         /\ fnOut.result[1].op = "restoreAll"
         /\ Len(fnOut.result) = 2 =>
              fnOut.result[2] = RepoCall("add", fnOut.answer.files, fnOut.result[2].ok)

\* the same statement for the gitAdd of commands/add.js alone
C30_HoldsForAddJs == fnIn.version = "add.js" => C30_EmptySelectionLeavesIndex

====
